---- MODULE Spec2Model ----
(***************************************************************************)
(* The console capsule (capsules/src/console.rs): a serial line shared by  *)
(* several userspace processes.  One transmit buffer and one receive       *)
(* buffer are handed back and forth between the Console and the UART;      *)
(* writes longer than the transmit buffer are sent in chunks, and writers  *)
(* that find the transmitter busy wait with pending_write set until the    *)
(* scan at the end of a transmit completion picks them.                    *)
(*                                                                         *)
(* A buffer is modelled by its length.  An Option / OptionalCell /         *)
(* TakeCell is the empty sequence (None) or a one-element sequence.        *)
(***************************************************************************)
EXTENDS Integers, Sequences, FiniteSets, TLC

VARIABLES alive, apps, con, hw, panicked, ev, req, owed, waitq, calls

vars == <<alive, apps, con, hw, panicked, ev, req, owed, waitq, calls>>

\* ------------------------------------------------------------- constants

\* WRITE_BUF and READ_BUF, the buffers Console::new is given.
TxCap == 64
RxCap == 64

\* The longest write buffer spans MaxChunks full chunks and two more bytes.
MaxChunks == 1
\* The longest read buffer exceeds the receive buffer by ReadOver bytes.
ReadOver == 1
\* The processes make at most MaxCalls system calls and teardowns in all.
MaxCalls == 6

\* The process slots, in the order apps.iter() visits them.
Procs == 1 .. 3
NProcs == Cardinality(Procs)

LongLen == MaxChunks * TxCap + 2
WBufLens == {1, LongLen}
WriteArgs == {0, LongLen}
RBufLens == {1, RxCap + ReadOver}
ReadArgs == {0, 1, RxCap + ReadOver}

\* --------------------------------------------------------------- helpers

None == <<>>
Some(x) == <<x>>

Min(a, b) == IF a < b THEN a ELSE b

\* #[derive(Default)] struct App
DefaultApp ==
  [write_callback |-> FALSE, write_buffer |-> None, write_len |-> 0,
   write_remaining |-> 0, pending_write |-> FALSE,
   read_callback |-> FALSE, read_buffer |-> None, read_len |-> 0]

\* The working state of one handler: the capsule's state, the UART's
\* outstanding operations, and what the handler has emitted so far
\* (UART calls, callbacks scheduled, requests it finished, the process the
\* scan started).  txok: the UART accepts the transmit the handler gives it.
K0 ==
  [apps |-> apps, con |-> con, hw |-> hw, tx |-> <<>>, rx |-> <<>>,
   cbs |-> <<>>, fin |-> <<>>, arb |-> None, panic |-> FALSE, txok |-> TRUE]

\* The handler's working state with the UART's answer to a transmit.
K1(hwok) == [K0 EXCEPT !.txok = hwok]

\* ------------------------------------------------------------- transmit

\* send, line 121: the transmitter is free
TxIdleSkip(c) == TRUE
TxIdle(c) == c.tx_in_progress = None

\* send, line 122: the sender becomes the owner of the transmitter
ClaimTxSkip(c, p) == c
ClaimTx(c, p) == [c EXCEPT !.tx_in_progress = Some(p)]

\* send, lines 137-143: the length of this chunk
ChunkLenAll(rem, cap) == rem
ChunkLen(rem, cap) == IF rem > cap THEN cap ELSE rem

\* send, lines 137-143: the slice is kept only while bytes remain
RetainAlways(rem, cap, slice, old) == Some(slice)
Retain(rem, cap, slice, old) == IF rem > cap THEN Some(slice) ELSE old

\* send, lines 146-148: uart.transmit_buffer; its result is discarded, so
\* a transmit the UART turns down is held by nobody afterwards
TransmitBuffer(h, call, ok) ==
  IF ok THEN [h EXCEPT !.tx = Append(@, call)] ELSE h

\* send, lines 120-154
Send(k, p, slice) ==
  IF TxIdle(k.con)
  THEN LET c1 == ClaimTx(k.con, p) IN
       IF c1.tx_buffer = None
       THEN [k EXCEPT !.con = c1]
       ELSE LET cap == c1.tx_buffer[1]
                rem == k.apps[p].write_remaining
                tl  == ChunkLen(rem, cap)
            IN IF rem > slice
               THEN \* slice.len() - write_remaining is out of range
                    [k EXCEPT !.con = [c1 EXCEPT !.tx_buffer = None],
                              !.panic = TRUE]
               ELSE [k EXCEPT
                      !.con = [c1 EXCEPT !.tx_buffer = None],
                      !.apps[p].write_remaining = rem - tl,
                      !.apps[p].write_buffer = Retain(rem, cap, slice, @),
                      !.hw = TransmitBuffer(@, [p |-> p, off |-> slice - rem,
                                                len |-> tl], k.txok),
                      !.tx = Append(@, [p |-> p, off |-> slice - rem,
                                        len |-> tl, ok |-> k.txok])]
  ELSE [k EXCEPT !.apps[p].pending_write = TRUE,
                 !.apps[p].write_buffer = Some(slice)]

\* send_new, lines 92-101
SendNew(k, p, len) ==
  IF k.apps[p].write_buffer # None
  THEN LET slice == k.apps[p].write_buffer[1]
           wl == Min(len, slice)
           k1 == [k EXCEPT !.apps[p].write_buffer = None,
                           !.apps[p].write_len = wl,
                           !.apps[p].write_remaining = wl]
       IN [k |-> Send(k1, p, slice), ret |-> "SUCCESS"]
  ELSE [k |-> k, ret |-> "EBUSY"]

\* send_continue, lines 105-116
SendContinue(k, p) ==
  IF k.apps[p].write_remaining > 0
  THEN IF k.apps[p].write_buffer = None
       THEN [k |-> k, res |-> "ERESERVE"]
       ELSE [k |-> Send([k EXCEPT !.apps[p].write_buffer = None], p,
                        k.apps[p].write_buffer[1]),
             res |-> "more"]
  ELSE [k |-> k, res |-> "done"]

\* transmitted_buffer, lines 288-295: the request is finished
Finish(k, p) ==
  LET written == k.apps[p].write_len IN
  [k EXCEPT !.apps[p].write_len = 0,
            !.cbs = IF k.apps[p].write_callback
                    THEN Append(@, [p |-> p, kind |-> "write",
                                    status |-> "OK", n |-> written])
                    ELSE @,
            !.fin = Append(@, [p |-> p, status |-> "OK", n |-> written])]

\* transmitted_buffer, lines 297-309 and 323-335: send_continue failed
FailKeep(k, p, code) ==
  [k EXCEPT !.apps[p].write_len = 0,
            !.apps[p].pending_write = FALSE,
            !.cbs = IF k.apps[p].write_callback
                    THEN Append(@, [p |-> p, kind |-> "write",
                                    status |-> code, n |-> 0])
                    ELSE @,
            !.fin = Append(@, [p |-> p, status |-> code, n |-> 0])]
Fail(k, p, code) ==
  [k EXCEPT !.apps[p].write_len = 0,
            !.apps[p].write_remaining = 0,
            !.apps[p].pending_write = FALSE,
            !.cbs = IF k.apps[p].write_callback
                    THEN Append(@, [p |-> p, kind |-> "write",
                                    status |-> code, n |-> 0])
                    ELSE @,
            !.fin = Append(@, [p |-> p, status |-> code, n |-> 0])]

\* transmitted_buffer, lines 284-312: the owner's next chunk or its end
OwnerContinueSkip(k, p) == k
OwnerContinue(k, p) ==
  LET r == SendContinue(k, p) IN
  IF r.res = "more" THEN r.k
  ELSE IF r.res = "done" THEN Finish(r.k, p)
  ELSE Fail(r.k, p, r.res)

\* transmitted_buffer, lines 317-345: the first process of the grant
\* iteration, from slot i on, that has a pending write is started
RECURSIVE Scan(_, _)
Scan(k, i) ==
  IF i > NProcs \/ k.panic THEN k
  ELSE IF ~alive[i] \/ ~k.apps[i].pending_write THEN Scan(k, i + 1)
  ELSE LET k1 == [k EXCEPT !.apps[i].pending_write = FALSE]
           r == SendContinue(k1, i)
       IN IF r.res = "more"
          THEN [r.k EXCEPT !.arb = IF r.k.panic THEN @ ELSE Some(i)]
          ELSE IF r.res = "done" THEN Scan(r.k, i + 1)
          ELSE Scan(Fail(r.k, i, r.res), i + 1)

\* transmitted_buffer, line 283: the buffer is back in the Console
ReturnTxSkip(c) == c
ReturnTx(c) == [c EXCEPT !.tx_buffer = Some(TxCap)]

\* transmitted_buffer, lines 280-347; _rcode is not read
TransmittedBuffer(k, rcode) ==
  LET c1 == ReturnTx(k.con)
      owner == c1.tx_in_progress
      k2 == [k EXCEPT !.con = [c1 EXCEPT !.tx_in_progress = None],
                      !.hw.tx = Tail(@)]
      k3 == IF owner # None /\ alive[owner[1]]
            THEN OwnerContinue(k2, owner[1])
            ELSE k2
  IN IF ~k3.panic /\ k3.con.tx_in_progress = None
     THEN Scan(k3, 1)
     ELSE k3

\* -------------------------------------------------------------- receive

\* receive_new, line 166: self.rx_buffer.map_or(0, |buf| buf.len())
RxBufferLenApp(c) == RxCap + ReadOver
RxBufferLen(c) == IF c.rx_buffer = None THEN 0 ELSE c.rx_buffer[1]

\* receive_new, line 163: match app.read_buffer
ReadSliceOrEmpty(a) == IF a.read_buffer = None THEN Some(0) ELSE a.read_buffer
ReadSlice(a) == a.read_buffer

\* receive_new, lines 158-161: the receive buffer is in the Console
RxIdleAlways(c) == TRUE
RxIdle(c) == c.rx_buffer # None

\* receive_new, lines 157-183; hwok: the UART accepts the receive
ReceiveNew(k, p, len, hwok) ==
  IF ~RxIdle(k.con)
  THEN [k |-> k, ret |-> "EBUSY"]
  ELSE LET k1 == [k EXCEPT !.con.rx_buffer = None]
           slice == ReadSlice(k1.apps[p])
       IN
       IF slice = None
       THEN [k |-> k1, ret |-> "EINVAL"]
       ELSE LET read_len == Min(len, slice[1]) IN
            IF read_len > RxBufferLen(k1.con)
            THEN [k |-> k1, ret |-> "ESIZE"]
            ELSE LET k2 == [k1 EXCEPT !.apps[p].read_len = read_len,
                                      !.con.rx_in_progress = Some(p)]
                 IN IF hwok
                    THEN [k |-> [k2 EXCEPT
                                  !.hw.rx = Append(@, [p |-> p,
                                                       len |-> read_len]),
                                  !.rx = Append(@, [p |-> p,
                                                    len |-> read_len,
                                                    ok |-> TRUE])],
                          ret |-> "SUCCESS"]
                    ELSE [k |-> [k2 EXCEPT
                                  !.con.rx_buffer = Some(RxCap),
                                  !.rx = Append(@, [p |-> p,
                                                    len |-> read_len,
                                                    ok |-> FALSE])],
                          ret |-> "FAIL"]

\* received_buffer, lines 368-372: the status of a receive that ended
\* without a UART error or was aborted
RetTypeSuccess(error) == "SUCCESS"
RetType(error) == IF error = "None" THEN "SUCCESS" ELSE "ECANCEL"

\* received_buffer, lines 357-384: the owner's callback; copied is the
\* number of bytes written into the process's buffer (zip, lines 365-367)
ReadCallback(k, p, rx_len, error) ==
  IF ~k.apps[p].read_callback THEN k
  ELSE IF error \in {"None", "Aborted"}
  THEN IF k.apps[p].read_buffer # None
       THEN [k EXCEPT
              !.apps[p].read_buffer = None,
              !.cbs = Append(@, [p |-> p, kind |-> "read",
                                 status |-> RetType(error),
                                 n |-> rx_len,
                                 copied |-> Min(rx_len,
                                                k.apps[p].read_buffer[1])])]
       ELSE [k EXCEPT !.cbs = Append(@, [p |-> p, kind |-> "read",
                                         status |-> "EINVAL", n |-> 0,
                                         copied |-> 0])]
  ELSE [k EXCEPT !.cbs = Append(@, [p |-> p, kind |-> "read",
                                    status |-> "FAIL", n |-> 0,
                                    copied |-> 0])]

\* received_buffer, line 389: the buffer is back in the Console
ReturnRxSkip(c) == c
ReturnRx(c) == [c EXCEPT !.rx_buffer = Some(RxCap)]

\* received_buffer, lines 351-390
ReceivedBuffer(k, rx_len, error) ==
  LET owner == k.con.rx_in_progress
      k1 == [k EXCEPT !.con.rx_in_progress = None,
                      !.hw.rx = Tail(@), !.hw.abort = FALSE]
      k2 == IF owner # None /\ alive[owner[1]]
            THEN ReadCallback(k1, owner[1], rx_len, error)
            ELSE k1
  IN [k2 EXCEPT !.con = ReturnRx(@)]

\* ------------------------------------------------------------- observers

\* The oldest accepted write of each process that has not been finished:
\* its length L, the bytes the UART was given for it so far, whether the
\* UART was given a chunk of it at all, and whether every chunk so far was
\* the next chunk of those L bytes (once not, the count stops), and whether
\* the process has called allow(1) since the request was accepted.
NoReq ==
  [active |-> FALSE, L |-> 0, sent |-> 0, begun |-> FALSE, ok |-> TRUE,
   touched |-> FALSE]

ChunksOf(k, p) == SelectSeq(k.tx, LAMBDA c : c.p = p)

Finished(k, p) == \E i \in DOMAIN k.fin : k.fin[i].p = p

\* The chunk that continues a request: the next TxCap bytes, or the rest.
NextChunk(r) == Min(TxCap, r.L - r.sent)

\* The request of p the handler's UART calls and callbacks belong to.
ReqNow(p, started, wl) ==
  IF started /\ ~req[p].active
  THEN [active |-> TRUE, L |-> wl, sent |-> 0, begun |-> FALSE, ok |-> TRUE,
        touched |-> FALSE]
  ELSE req[p]

RECURSIVE Track(_, _)
Track(r, cs) ==
  IF cs = <<>> THEN r
  ELSE IF ~r.ok THEN [r EXCEPT !.begun = TRUE]
  ELSE IF Head(cs).len = NextChunk(r) /\ (r.sent < r.L \/ ~r.begun)
       THEN Track([r EXCEPT !.sent = @ + Head(cs).len, !.begun = TRUE],
                  Tail(cs))
       ELSE [r EXCEPT !.ok = FALSE, !.begun = TRUE]

ReqAfter(k, p, started, wl, allowed) ==
  LET r0 == ReqNow(p, started, wl) IN
  IF Finished(k, p) THEN NoReq
  ELSE IF r0.active
  THEN [Track(r0, ChunksOf(k, p)) EXCEPT !.touched = @ \/ allowed]
  ELSE r0

\* A finished request, with the request record it answers.
WithReq(s) ==
  [i \in DOMAIN s |-> [c |-> s[i], r |-> req[s[i].p]]]

\* Callbacks of one kind scheduled for p by the handler.
CbCount(k, p, kind) ==
  Len(SelectSeq(k.cbs, LAMBDA c : c.p = p /\ c.kind = kind))

\* Accepted requests of a process with the callback registered that have
\* not had their callback yet.
OwedAfter(old, registered, accepted, ncb) ==
  IF ~registered THEN 0
  ELSE LET v == old + (IF accepted THEN 1 ELSE 0) - ncb
       IN IF v < 0 THEN 0 ELSE v

\* A process waits for the transmitter: its flag is set and it has data.
Waiting(a) ==
  a.pending_write /\ a.write_remaining > 0 /\ a.write_buffer # None

InSeq(s, x) == \E i \in DOMAIN s : s[i] = x

\* A start-read was turned away with EBUSY during the receive that is
\* outstanding, or that this handler completed.
BusiedAfter(op, ret) ==
  IF hw.rx = <<>> THEN FALSE
  ELSE ev.busied \/ (op = "cmd2" /\ ret = "EBUSY")

\* The effects of one handler, and what it emitted.
Commit(k, op, p, arg, ret, alive2) ==
  /\ apps' = k.apps
  /\ con' = k.con
  /\ hw' = k.hw
  /\ panicked' = k.panic
  /\ alive' = alive2
  /\ ev' = [op |-> op, p |-> p, arg |-> arg, ret |-> ret, tx |-> k.tx,
            rx |-> k.rx, cbs |-> k.cbs,
            fin |-> WithReq(k.fin),
            arb |-> k.arb,
            head |-> IF waitq = <<>> THEN None ELSE Some(Head(waitq)),
            busied |-> BusiedAfter(op, ret)]
  /\ req' = [q \in Procs |->
               IF ~alive2[q] THEN NoReq
               ELSE ReqAfter(k, q, op = "cmd1" /\ q = p /\ ret = "SUCCESS",
                             k.apps[q].write_len,
                             op = "allow" /\ q = p /\ arg = 1)]
  /\ owed' = [q \in Procs |->
                IF ~alive2[q] THEN [w |-> 0, r |-> 0]
                ELSE [w |-> OwedAfter(owed[q].w, k.apps[q].write_callback,
                                      op = "cmd1" /\ q = p /\ ret = "SUCCESS",
                                      CbCount(k, q, "write")),
                      r |-> OwedAfter(owed[q].r, k.apps[q].read_callback,
                                      op = "cmd2" /\ q = p /\ ret = "SUCCESS",
                                      CbCount(k, q, "read"))]]
  /\ waitq' = SelectSeq(waitq, LAMBDA q : alive2[q] /\ Waiting(k.apps[q]))
               \o (IF p \in Procs /\ alive2[p] /\ Waiting(k.apps[p])
                      /\ ~InSeq(waitq, p)
                   THEN <<p>> ELSE <<>>)

\* --------------------------------------------------------------- actions

Init ==
  /\ alive = [p \in Procs |-> TRUE]
  /\ apps = [p \in Procs |-> DefaultApp]
  /\ con = [tx_in_progress |-> None, tx_buffer |-> Some(TxCap),
            rx_in_progress |-> None, rx_buffer |-> Some(RxCap)]
  /\ hw = [tx |-> <<>>, rx |-> <<>>, abort |-> FALSE]
  /\ panicked = FALSE
  /\ ev = [op |-> "init", p |-> 0, arg |-> 0, ret |-> "SUCCESS",
           tx |-> <<>>, rx |-> <<>>, cbs |-> <<>>, fin |-> <<>>,
           arb |-> None, head |-> None, busied |-> FALSE]
  /\ req = [p \in Procs |-> NoReq]
  /\ owed = [p \in Procs |-> [w |-> 0, r |-> 0]]
  /\ waitq = <<>>
  /\ calls = 0

Running(p) == alive[p] /\ ~panicked

\* Driver::allow, lines 193-214
Allow(p, allow_num, slice) ==
  /\ Running(p)
  /\ LET k == IF allow_num = 1
              THEN [K0 EXCEPT !.apps[p].write_buffer = slice]
              ELSE IF allow_num = 2
              THEN [K0 EXCEPT !.apps[p].read_buffer = slice]
              ELSE K0
         ret == IF allow_num \in {1, 2} THEN "SUCCESS" ELSE "ENOSUPPORT"
     IN Commit(k, "allow", p, allow_num, ret, alive)

\* Driver::subscribe, lines 221-242
Subscribe(p, subscribe_num, callback) ==
  /\ Running(p)
  /\ LET k == IF subscribe_num = 1
              THEN [K0 EXCEPT !.apps[p].write_callback = callback]
              ELSE IF subscribe_num = 2
              THEN [K0 EXCEPT !.apps[p].read_callback = callback]
              ELSE K0
         ret == IF subscribe_num \in {1, 2} THEN "SUCCESS" ELSE "ENOSUPPORT"
     IN Commit(k, "subscribe", p, subscribe_num, ret, alive)

\* Driver::command, lines 257 and 274: driver check, unknown command
CommandOther(p, cmd_num) ==
  /\ Running(p)
  /\ cmd_num \notin {1, 2, 3}
  /\ Commit(K0, "cmd", p, cmd_num,
            IF cmd_num = 0 THEN "SUCCESS" ELSE "ENOSUPPORT", alive)

\* Driver::command, lines 258-263: putstr; hwok: the UART accepts the
\* transmit, if one is made
StartWrite(p, len, hwok) ==
  /\ Running(p)
  /\ LET r == SendNew(K1(hwok), p, len)
     IN Commit(r.k, "cmd1", p, 0, r.ret, alive)

\* Driver::command, lines 264-269: getnstr
StartRead(p, len, hwok) ==
  /\ Running(p)
  /\ LET r == ReceiveNew(K0, p, len, hwok)
     IN Commit(r.k, "cmd2", p, len, r.ret, alive)

\* uart.receive_abort(): the UART ends the receive it holds, if any, and
\* reports it later as aborted; with nothing to end it does nothing.
ReceiveAbortAlways(h) == [h EXCEPT !.abort = TRUE]
ReceiveAbort(h) == [h EXCEPT !.abort = (h.rx # <<>>)]

\* Driver::command, lines 270-273: abort rx
AbortRead(p) ==
  /\ Running(p)
  /\ Commit([K0 EXCEPT !.hw = ReceiveAbort(@)], "cmd3", p, 0,
            "SUCCESS", alive)

\* The UART finishes the transmit it holds and reports rcode:
\* TransmitClient::transmitted_buffer(buffer, _tx_len, _rcode); hwok: the
\* UART accepts the next transmit, if the handler makes one
TxComplete(rcode, hwok) ==
  /\ ~panicked
  /\ hw.tx # <<>>
  /\ Commit(TransmittedBuffer(K1(hwok), rcode), "txdone", 0, 0, rcode,
            alive)

\* The UART finishes the receive it holds: ReceiveClient::received_buffer
RxComplete(rx_len, error) ==
  /\ ~panicked
  /\ hw.rx # <<>>
  /\ rx_len \in {0, Head(hw.rx).len}
  /\ IF hw.abort THEN error = "Aborted"
     ELSE \/ error = "None" /\ rx_len = Head(hw.rx).len
          \/ error = "Other"
  /\ Commit(ReceivedBuffer(K0, rx_len, error), "rxdone", 0, rx_len, error,
            alive)

\* The kernel tears a process down; its grant region is reclaimed.
Kill(p) ==
  /\ Running(p)
  /\ Commit([K0 EXCEPT !.apps[p] = DefaultApp], "kill", p, 0, "SUCCESS",
            [alive EXCEPT ![p] = FALSE])

\* A system call or a teardown is taken while the budget lasts; the
\* UART's completions are not counted.
Counted(A) == calls < MaxCalls /\ calls' = calls + 1 /\ A
Free(A) == A /\ UNCHANGED calls

AllowWrite == \E p \in Procs, s \in {None} \cup {Some(l) : l \in WBufLens} :
                Allow(p, 1, s)
AllowRead == \E p \in Procs, s \in {None} \cup {Some(l) : l \in RBufLens} :
               Allow(p, 2, s)
AllowOther == \E p \in Procs : Allow(p, 3, None)
SubscribeWrite == \E p \in Procs, c \in BOOLEAN : Subscribe(p, 1, c)
SubscribeRead == \E p \in Procs, c \in BOOLEAN : Subscribe(p, 2, c)
SubscribeOther == \E p \in Procs : Subscribe(p, 3, TRUE)
Other == \E p \in Procs, c \in {0, 4} : CommandOther(p, c)
Write == \E p \in Procs, len \in WriteArgs, hwok \in BOOLEAN :
           StartWrite(p, len, hwok)
Read == \E p \in Procs, len \in ReadArgs, hwok \in BOOLEAN :
          StartRead(p, len, hwok)
Abort == \E p \in Procs : AbortRead(p)
RxDone == \E len \in {0, 1, RxCap}, e \in {"None", "Aborted", "Other"} :
            RxComplete(len, e)
Teardown == \E p \in Procs : Kill(p)
TxDone == \E rcode \in {"SUCCESS", "FAIL"}, hwok \in BOOLEAN :
            TxComplete(rcode, hwok)

Next ==
  \/ Counted(AllowWrite)
  \/ Counted(AllowRead)
  \/ Counted(AllowOther)
  \/ Counted(SubscribeWrite)
  \/ Counted(SubscribeRead)
  \/ Counted(SubscribeOther)
  \/ Counted(Other)
  \/ Counted(Write)
  \/ Counted(Read)
  \/ Counted(Abort)
  \/ Free(TxDone)
  \/ Free(RxDone)
  \/ Counted(Teardown)

Spec == Init /\ [][Next]_vars

\* The transmit side alone: the receive side shares no field with it.
TxNext ==
  \/ Counted(AllowWrite)
  \/ Counted(SubscribeWrite)
  \/ Counted(Write)
  \/ Free(TxDone)
  \/ Counted(Teardown)

TxSpec == Init /\ [][TxNext]_vars

\* The transmit side without subscribe: write_callback is read only where a
\* callback is scheduled (lines 292, 306, 332) and decides nothing else, so
\* the buffers, lengths, flags and UART calls are those of TxSpec.
TxCoreNext ==
  \/ Counted(AllowWrite)
  \/ Counted(Write)
  \/ Free(TxDone)
  \/ Counted(Teardown)

TxCoreSpec == Init /\ [][TxCoreNext]_vars

\* The receive side alone.
RxNext ==
  \/ Counted(AllowRead)
  \/ Counted(SubscribeRead)
  \/ Counted(Read)
  \/ Counted(Abort)
  \/ Free(RxDone)
  \/ Counted(Teardown)

RxSpec == Init /\ [][RxNext]_vars

\* The writers only, without a budget: every process keeps asking to write
\* the long buffer and registers a buffer again only between its requests.
\* The UART accepts and completes every transmit it is given.
AllowIdle ==
  \E p \in Procs :
    /\ ~apps[p].pending_write
    /\ apps[p].write_remaining = 0
    /\ Allow(p, 1, Some(LongLen))
WriteLong == \E p \in Procs : StartWrite(p, LongLen, TRUE)
TxDoneTaken == \E rcode \in {"SUCCESS", "FAIL"} : TxComplete(rcode, TRUE)

LiveNext ==
  \/ Free(AllowIdle)
  \/ Free(WriteLong)
  \/ Free(TxDoneTaken)

LiveSpec == Init /\ [][LiveNext]_vars /\ WF_vars(Free(TxDoneTaken))

\* ---------------------------------------------------------------- claims

\* The UART calls of the last handler that were made for process p.
TxCallsFor(p) == SelectSeq(ev.tx, LAMBDA c : c.p = p)

\* C1: at most one transmit is outstanding at the UART; tx_in_progress is
\* set exactly when tx_buffer is absent from the Console, and while the
\* kernel runs the buffer is absent exactly when the UART holds it.
C1_OneTransmitInFlight ==
  /\ Len(hw.tx) <= 1
  /\ (con.tx_in_progress # None) <=> (con.tx_buffer = None)
  /\ ~panicked => ((con.tx_buffer = None) <=> (Len(hw.tx) = 1))

\* C1 witness: a transmit is outstanding and another process has asked to
\* write meanwhile.
C1_Witness ==
  /\ Len(hw.tx) = 1
  /\ \E p \in Procs : apps[p].pending_write /\ con.tx_in_progress # Some(p)

\* C2: every accepted start-write or start-read of a live process with the
\* callback registered gets its callback.  Once the UART holds nothing no
\* completion can follow, so by then no accepted request is still owed one.
\* Stated for the runs in which the UART took every transmit: the
\* transmitter is idle, not left claimed by a transmit the UART turned down.
C2_EveryRequestAnswered ==
  (hw.tx = <<>> /\ hw.rx = <<>> /\ con.tx_in_progress = None /\ ~panicked)
    => \A p \in Procs : owed[p].w = 0 /\ owed[p].r = 0

\* C3: for a write of L > 0 bytes the UART is given the chunks of TxCap
\* bytes and then the rest, in order, and when the request is finished the
\* callback reports L.  Stated for the requests during which the process
\* leaves its registered buffer alone.
C3_ChunksOfARequest ==
  /\ \A p \in Procs : (req[p].L > 0 /\ ~req[p].touched) => req[p].ok
  /\ \A i \in DOMAIN ev.fin :
       (ev.fin[i].r.active /\ ev.fin[i].r.L > 0 /\ ~ev.fin[i].r.touched)
         => /\ ev.fin[i].c.status = "OK"
            /\ ev.fin[i].c.n = ev.fin[i].r.L
            /\ ev.fin[i].r.sent = ev.fin[i].r.L

\* C4: the UART is given a chunk of a process only while no other process
\* has a request of which a chunk was handed over and which is unfinished.
C4_NoInterleaving ==
  \A i \in DOMAIN ev.tx : \A p \in Procs :
    p # ev.tx[i].p => ~(req[p].active /\ req[p].begun)

\* C4 witness: a request of several chunks has just finished while another
\* process was waiting, and the scan handed the waiting process's chunk to
\* the UART.
C4_Witness ==
  /\ ev.op = "txdone"
  /\ ev.arb # None
  /\ ev.tx # <<>>
  /\ \E i \in DOMAIN ev.fin : ev.fin[i].r.L > TxCap /\ ev.fin[i].c.status = "OK"

\* C5: when a transmission ends and the scan starts a waiting process, it
\* is the one that has waited longest.
C5_LongestWaiterFirst ==
  (ev.op = "txdone" /\ ev.arb # None /\ ev.head # None) => ev.arb = ev.head

\* C6: a process that waits with pending_write set and data to send is
\* eventually handed to the UART.
C6_WaitingWriterServed ==
  \A p \in Procs : Waiting(apps[p]) ~> (TxCallsFor(p) # <<>>)

\* C7: a start-read of a process with a read buffer, with the receive
\* buffer idle and min(len, B) within its capacity, succeeds, sets
\* read_len and rx_in_progress and gives the UART one receive of read_len.
C7_ValidReadSucceeds ==
  [][\A p \in Procs, len \in ReadArgs :
       (/\ ev'.op = "cmd2" /\ ev'.p = p /\ ev'.arg = len
        /\ apps[p].read_buffer # None
        /\ con.rx_buffer # None /\ hw.rx = <<>>
        /\ Min(len, apps[p].read_buffer[1]) <= RxCap
        /\ \A i \in DOMAIN ev'.rx : ev'.rx[i].ok)
       => (/\ ev'.ret = "SUCCESS"
           /\ apps'[p].read_len = Min(len, apps[p].read_buffer[1])
           /\ con'.rx_in_progress = Some(p)
           /\ ev'.rx = <<[p |-> p, len |-> Min(len, apps[p].read_buffer[1]),
                         ok |-> TRUE]>>)]_vars

\* C8: the receive buffer is in exactly one place, the Console or the UART.
C8_RxBufferNeverLost ==
  (con.rx_buffer # None) # (Len(hw.rx) = 1)

\* C9 as stated: every start-read whose effective length exceeds the
\* receive buffer returns ESIZE, calls no UART receive and does not set
\* rx_in_progress.
C9_Original ==
  [][\A p \in Procs, len \in ReadArgs :
       (/\ ev'.op = "cmd2" /\ ev'.p = p /\ ev'.arg = len
        /\ apps[p].read_buffer # None
        /\ Min(len, apps[p].read_buffer[1]) > RxCap)
       => (/\ ev'.ret = "ESIZE"
           /\ ev'.rx = <<>>
           /\ con'.rx_in_progress = con.rx_in_progress)]_vars

\* C9 amended: with the receive buffer in the Console, a start-read whose
\* effective length exceeds the receive buffer returns ESIZE, calls no UART
\* receive and leaves rx_in_progress as it was.
C9_OversizeReadRejected ==
  [][\A p \in Procs, len \in ReadArgs :
       (/\ ev'.op = "cmd2" /\ ev'.p = p /\ ev'.arg = len
        /\ apps[p].read_buffer # None
        /\ con.rx_buffer # None
        /\ Min(len, apps[p].read_buffer[1]) > RxCap)
       => (/\ ev'.ret = "ESIZE"
           /\ ev'.rx = <<>>
           /\ con'.rx_in_progress = con.rx_in_progress)]_vars

\* C9 witness: a start-read longer than the receive buffer was rejected
\* with ESIZE.
C9_Witness ==
  /\ ev.op = "cmd2"
  /\ ev.ret = "ESIZE"
  /\ apps[ev.p].read_buffer # None
  /\ Min(ev.arg, apps[ev.p].read_buffer[1]) > RxCap
  /\ con.rx_in_progress = None

\* C10: with the receive buffer idle in the Console, a start-read of a
\* process that has no read buffer returns EINVAL, calls no UART receive
\* and does not set rx_in_progress.
C10_NoBufferRejected ==
  [][\A p \in Procs :
       (/\ ev'.op = "cmd2" /\ ev'.p = p
        /\ apps[p].read_buffer = None
        /\ con.rx_buffer # None /\ hw.rx = <<>>)
       => (/\ ev'.ret = "EINVAL"
           /\ ev'.rx = <<>>
           /\ con'.rx_in_progress = con.rx_in_progress)]_vars

\* C10 witness: a process whose read buffer was consumed by a completed
\* receive asked to read again and got EINVAL.
C10_Witness ==
  /\ ev.op = "cmd2"
  /\ ev.ret = "EINVAL"
  /\ apps[ev.p].read_buffer = None
  /\ apps[ev.p].read_callback

\* The callback record of a read that ended for process p.
ReadCb(p, status, n, copied) ==
  [p |-> p, kind |-> "read", status |-> status, n |-> n, copied |-> copied]

\* C11: while a receive is outstanding, a start-read of any process returns
\* EBUSY, calls no UART receive and changes neither the Console nor any
\* process's state; and the receive during which a start-read was turned
\* away ends as usual: when the UART completes it without error, the owner's
\* read callback is scheduled once with success and the received count.
C11_SecondReadBusy ==
  [][/\ (ev'.op = "cmd2" /\ hw.rx # <<>>)
          => (/\ ev'.ret = "EBUSY"
              /\ ev'.rx = <<>>
              /\ con' = con /\ apps' = apps /\ hw' = hw)
     /\ (/\ ev'.op = "rxdone" /\ ev'.ret = "None" /\ ev'.busied
         /\ alive[Head(hw.rx).p]
         /\ apps[Head(hw.rx).p].read_callback
         /\ apps[Head(hw.rx).p].read_buffer # None)
          => ev'.cbs = <<ReadCb(Head(hw.rx).p, "SUCCESS", ev'.arg,
                                Min(ev'.arg,
                                    apps[Head(hw.rx).p].read_buffer[1]))>>
    ]_vars

\* C11 witness: a receive during which another start-read got EBUSY has
\* completed and its owner's callback reports success.
C11_Witness ==
  /\ ev.op = "rxdone"
  /\ ev.busied
  /\ ev.cbs # <<>>
  /\ ev.cbs[1].status = "SUCCESS"

\* C12: command 3 during an outstanding receive returns success, schedules
\* no callback and changes no Console or process state; when the UART then
\* reports the receive as aborted, the owner's read callback is scheduled
\* once with ECANCEL and the count received, rx_in_progress is cleared and
\* rx_buffer holds the buffer again.
C12_AbortOutstanding ==
  [][/\ (ev'.op = "cmd3" /\ hw.rx # <<>>)
          => (/\ ev'.ret = "SUCCESS"
              /\ ev'.cbs = <<>>
              /\ hw'.abort /\ hw'.rx = hw.rx
              /\ con' = con /\ apps' = apps)
     /\ (/\ ev'.op = "rxdone" /\ hw.abort
         /\ alive[Head(hw.rx).p]
         /\ apps[Head(hw.rx).p].read_callback
         /\ apps[Head(hw.rx).p].read_buffer # None)
          => (/\ ev'.ret = "Aborted"
              /\ ev'.cbs = <<ReadCb(Head(hw.rx).p, "ECANCEL", ev'.arg,
                                    Min(ev'.arg,
                                        apps[Head(hw.rx).p].read_buffer[1]))>>
              /\ con'.rx_in_progress = None
              /\ con'.rx_buffer = Some(RxCap)
              /\ hw'.rx = <<>>)
    ]_vars

\* C12 witness: an aborted receive has completed and its owner was told
\* ECANCEL.
C12_Witness ==
  /\ ev.op = "rxdone"
  /\ ev.ret = "Aborted"
  /\ ev.cbs # <<>>
  /\ ev.cbs[1].status = "ECANCEL"
  /\ con.rx_buffer # None

\* C13: command 3 with no receive outstanding returns success, schedules no
\* callback and changes neither the Console, nor any process's state, nor
\* what the UART will report; no abort is left behind for a later receive.
C13_AbortNothing ==
  [][/\ (ev'.op = "cmd3" /\ hw.rx = <<>>)
          => (/\ ev'.ret = "SUCCESS"
              /\ ev'.cbs = <<>>
              /\ con' = con /\ apps' = apps /\ hw' = hw)
     /\ (hw'.rx = <<>> => ~hw'.abort)
    ]_vars

\* C13 witness: a process with a read callback and a read buffer has called
\* command 3 while nothing was outstanding.
C13_Witness ==
  /\ ev.op = "cmd3"
  /\ hw.rx = <<>>
  /\ con.rx_in_progress = None
  /\ apps[ev.p].read_callback
  /\ apps[ev.p].read_buffer # None

\* C14: allow(1, ...) by a process whose write is in flight or pending
\* changes nothing about that write: the kernel computes no out-of-range
\* slice, and the request ends with all its L bytes handed to the UART and a
\* callback that reports L without error.
C14_AllowKeepsTransfer ==
  /\ ~panicked
  /\ \A i \in DOMAIN ev.fin :
       (ev.fin[i].r.active /\ ev.fin[i].r.touched /\ ev.fin[i].r.L > 0)
         => /\ ev.fin[i].c.status = "OK"
            /\ ev.fin[i].c.n = ev.fin[i].r.L
            /\ ev.fin[i].r.sent = ev.fin[i].r.L

\* C15: when the UART reports a failed transmit for a chunk of a write of
\* one byte or more, whose process is alive and has a write callback, that
\* callback is scheduled in the completion with a failure status, not with
\* a byte count.
C15_HardwareErrorReported ==
  [][(/\ ev'.op = "txdone" /\ ev'.ret = "FAIL"
      /\ con.tx_in_progress # None
      /\ alive[con.tx_in_progress[1]]
      /\ apps[con.tx_in_progress[1]].write_callback
      /\ apps[con.tx_in_progress[1]].write_len > 0)
       => \E i \in DOMAIN ev'.cbs :
            /\ ev'.cbs[i].p = con.tx_in_progress[1]
            /\ ev'.cbs[i].kind = "write"
            /\ ev'.cbs[i].status # "OK"
    ]_vars

\* C16: a start-write of a process without a registered write buffer returns
\* EBUSY, calls no UART transmit and changes no state; and once every chunk
\* of a request has been handed to the UART, the process having left its
\* buffer alone, its write_buffer is absent.
C16_BufferReleased ==
  [][/\ \A p \in Procs :
          (ev'.op = "cmd1" /\ ev'.p = p /\ apps[p].write_buffer = None)
            => (/\ ev'.ret = "EBUSY"
                /\ ev'.tx = <<>>
                /\ apps' = apps /\ con' = con /\ hw' = hw)
     /\ \A p \in Procs :
          (/\ req'[p].active /\ req'[p].ok /\ ~req'[p].touched
           /\ req'[p].L > 0 /\ req'[p].sent = req'[p].L)
            => apps'[p].write_buffer = None
    ]_vars

\* C16 witness: a process whose write of several chunks has been handed to
\* the UART completely asked to write again and got EBUSY.
C16_Witness ==
  /\ ev.op = "cmd1"
  /\ ev.ret = "EBUSY"
  /\ req[ev.p].active
  /\ req[ev.p].L > TxCap
  /\ req[ev.p].sent = req[ev.p].L

\* C17: write_remaining never exceeds write_len.
C17_RemainingWithinLen ==
  \A p \in Procs : apps[p].write_remaining <= apps[p].write_len

\* C17 witness: a write is part way through, with some bytes sent and some
\* remaining.
C17_Witness ==
  \E p \in Procs :
    /\ 0 < apps[p].write_remaining
    /\ apps[p].write_remaining < apps[p].write_len
    /\ con.tx_in_progress = Some(p)

\* C18: while the UART holds a transmit, its owner is not flagged
\* pending_write: a process is never the owner of the data in flight and
\* pending at once.
C18_PendingNotOwner ==
  \A p \in Procs :
    hw.tx # <<>> => ~(con.tx_in_progress = Some(p) /\ apps[p].pending_write)

\* The first live process, in grant order, with pending_write set.
FirstPending ==
  LET S == {p \in Procs : alive[p] /\ apps[p].pending_write}
  IN IF S = {} THEN None ELSE Some(CHOOSE p \in S : \A q \in S : p <= q)

\* C19: at the transmit completion of an owner that was torn down, no
\* callback is scheduled for it, the transmitter is not left claimed by it,
\* and the scan starts the first live process with pending_write set; with
\* no such process the transmitter is idle with its buffer in the Console.
C19_DeadOwner ==
  [][(/\ ev'.op = "txdone"
      /\ con.tx_in_progress # None
      /\ ~alive[con.tx_in_progress[1]])
       => (/\ \A i \in DOMAIN ev'.cbs :
                ev'.cbs[i].p # con.tx_in_progress[1]
           /\ con'.tx_in_progress = FirstPending
           /\ IF FirstPending = None
              THEN ev'.tx = <<>> /\ con'.tx_buffer = Some(TxCap)
              ELSE /\ Len(ev'.tx) = 1
                   /\ ev'.tx[1].p = FirstPending[1]
                   /\ con'.tx_buffer = None)
    ]_vars

\* C20: every receive completion clears rx_in_progress and puts the buffer
\* back into rx_buffer.  When the owner is alive and has a read callback and
\* the UART reports no error or an abort: with a read buffer registered,
\* min(rx_len, buffer length) bytes are copied, the registration is consumed
\* and the callback reports success or ECANCEL with rx_len; with none, the
\* callback reports EINVAL and 0 and nothing is copied.  Without such an
\* owner no callback is scheduled.
C20_ReceiveDispatch ==
  [][ev'.op = "rxdone" =>
       LET o == con.rx_in_progress
           served == o # None /\ alive[o[1]] /\ apps[o[1]].read_callback
       IN /\ con'.rx_in_progress = None
          /\ con'.rx_buffer = Some(RxCap)
          /\ ~served => (ev'.cbs = <<>> /\ apps' = apps)
          /\ (served /\ ev'.ret \in {"None", "Aborted"}
                /\ apps[o[1]].read_buffer # None)
               => (/\ ev'.cbs =
                        <<ReadCb(o[1],
                                 IF ev'.ret = "None" THEN "SUCCESS"
                                 ELSE "ECANCEL",
                                 ev'.arg,
                                 Min(ev'.arg, apps[o[1]].read_buffer[1]))>>
                   /\ apps'[o[1]].read_buffer = None)
          /\ (served /\ ev'.ret \in {"None", "Aborted"}
                /\ apps[o[1]].read_buffer = None)
               => (/\ ev'.cbs = <<ReadCb(o[1], "EINVAL", 0, 0)>>
                   /\ apps' = apps)
    ]_vars

\* C20 witness: a receive has completed for an owner that had withdrawn its
\* read buffer, and the callback reports EINVAL.
C20_Witness ==
  /\ ev.op = "rxdone"
  /\ ev.cbs # <<>>
  /\ ev.cbs[1].status = "EINVAL"
  /\ con.rx_in_progress = None
  /\ con.rx_buffer # None

====
